---- MODULE Spec2Model ----
(***************************************************************************)
(* Model of encdl.py: the ENC -> GeoJSON -> MBTiles batch pipeline.        *)
(*                                                                         *)
(*   SpecEnc  : an Enc object and its spatial predicates within and        *)
(*              intersects, applied to bounded integer envelopes.          *)
(*   Spec     : one run of the __main__ driver: get_enc, make_geojsons,    *)
(*              process_geojsons (tiling pool, merge pool) and             *)
(*              make_tile_config, with the worker-pool tasks interleaved.  *)
(*   SpecFair : the runs of Spec that select every stage, with weak        *)
(*              fairness on the steps of the driver and the pool workers.  *)
(*   SpecStyle: make_tile_config applied to bounded sets of tile archives  *)
(*              and bounded style documents.                               *)
(*   SpecAcc  : the accumulator mode of the conversion stage, which is not *)
(*              part of encdl.py, as the design document describes it.     *)
(***************************************************************************)
EXTENDS Integers, Sequences, FiniteSets, TLC

\* ------------------------------------------------------------------------
\* Bounds of the model
\* ------------------------------------------------------------------------

\* coordinates of the envelopes of SpecEnc range over 0..MaxCoord
MaxCoord == 2

\* args.jobs is 1 or MaxJobs
MaxJobs == 2

\* at most MaxFailures external-tool invocations of one run fail
MaxFailures == 1

\* SpecStyle: at most MaxArchives tile archives are in <work>/mbtiles
MaxArchives == 3

\* SpecStyle: a style document has at most MaxRules layer rules
MaxRules == 2

\* SpecAcc: the chart root holds at most MaxAccCells cell directories
MaxAccCells == 3

\* ------------------------------------------------------------------------
\* Enc: bounding boxes, within, intersects            (encdl.py 58-90)
\* ------------------------------------------------------------------------

\* self.bb = None: the extent that could not be read, told apart from every
\* four-number extent
None == << >>

\* a four-number envelope (min-x, max-x, min-y, max-y) with min <= max
Envelopes ==
    { e \in (0..MaxCoord) \X (0..MaxCoord) \X (0..MaxCoord) \X (0..MaxCoord) :
        e[1] <= e[2] /\ e[3] <= e[4] }

\* within with the comparisons not strict
within_nonstrict(bb, env) ==
    IF bb = None
    THEN FALSE
    ELSE /\ env[1] <= bb[1]
         /\ env[2] >= bb[2]
         /\ env[3] <= bb[3]
         /\ env[4] >= bb[4]

\* Enc.within(self, env), with bb the value of self.bb
within(bb, env) ==
    IF bb = None
    THEN FALSE
    ELSE /\ env[1] < bb[1]
         /\ env[2] > bb[2]
         /\ env[3] < bb[3]
         /\ env[4] > bb[4]

\* intersects with boxes that only touch taken as disjoint
intersects_strict(bb, env) ==
    IF bb = None
    THEN FALSE
    ELSE ~ ( \/ env[1] >= bb[2]
             \/ env[2] <= bb[1]
             \/ env[3] >= bb[4]
             \/ env[4] <= bb[3] )

\* Enc.intersects(self, env), with bb the value of self.bb
intersects(bb, env) ==
    IF bb = None
    THEN FALSE
    ELSE LET ax1 == env[1]
             ax2 == env[2]
             ay1 == env[3]
             ay2 == env[4]
             bx1 == bb[1]
             bx2 == bb[2]
             by1 == bb[3]
             by2 == bb[4]
         IN  ~ ( \/ ax1 > bx2
                 \/ ax2 < bx1
                 \/ ay1 > by2
                 \/ ay2 < by1 )

\* ------------------------------------------------------------------------
\* Configuration tables                               (encdl.py 31-38, 93-112)
\* ------------------------------------------------------------------------

\* MAXZ = 18
MAXZ == 18

\* a table in which the ranges of adjacent bands share two levels
BAND2ZOOM_overlapping ==
    << <<0, 7>>, <<6, 11>>, <<10, 13>>, <<12, 15>>, <<14, 17>>, <<16, 18>> >>

\* BAND2ZOOM: band -> (minzoom, maxzoom); only bands 1..6 are keys
BAND2ZOOM ==
    << <<0, 6>>, <<6, 10>>, <<10, 12>>, <<12, 14>>, <<14, 16>>, <<16, 18>> >>

\* CFG['layers'], in the dict's insertion order
Layers == << "LNDARE", "DEPCNT", "SOUNDG" >>

LayerSet == { Layers[k] : k \in DOMAIN Layers }

\* the last character of a layer name
LayerLastChar(layer) ==
    CASE layer = "LNDARE" -> "E"
      [] layer = "DEPCNT" -> "T"
      [] layer = "SOUNDG" -> "G"

\* str(band) for a one-digit band, as the f-strings of process_geojsons format it
DigitChars == << "1", "2", "3", "4", "5", "6", "7", "8", "9" >>

Digit(band) == DigitChars[band]

IsDigit(c) == \E d \in DOMAIN DigitChars : DigitChars[d] = c

\* int(c) for a one-character string: defined only when c is a digit
IntOf(c) == CHOOSE d \in DOMAIN DigitChars : DigitChars[d] = c

\* ------------------------------------------------------------------------
\* The chart root: cell directories, their names and extents
\* ------------------------------------------------------------------------

\* directory names <cell-dir> as character sequences; Python's stem[2] is
\* the third character, stem[3:5] the fourth and fifth
US1AK1 == << "U", "S", "1", "A", "K", "1" >>
US1AK2 == << "U", "S", "1", "A", "K", "2" >>
US1CA1 == << "U", "S", "1", "C", "A", "1" >>
US2AK1 == << "U", "S", "2", "A", "K", "1" >>
US3AK1 == << "U", "S", "3", "A", "K", "1" >>
US7AK1 == << "U", "S", "7", "A", "K", "1" >>

\* the order in which iterdir() lists the directories it finds
DirOrder == << US1AK1, US1AK2, US1CA1, US2AK1, US3AK1, US7AK1 >>

DirNames == { DirOrder[k] : k \in DOMAIN DirOrder }

\* args.bb of the runs of Spec: (min_lon, max_lon, min_lat, max_lat)
QueryBox == << -130, -120, 30, 40 >>

\* what ds.GetLayer(1).GetExtent() returns for <cell-dir>.000, or None when
\* drv.Open raises: overlapping, disjoint (just east of the box),
\* unreadable, nested, disjoint, overlapping
Extent(name) ==
    CASE name = US1AK1 -> << -140, -125, 35, 45 >>
      [] name = US1AK2 -> << -119, -110, 32, 38 >>
      [] name = US1CA1 -> None
      [] name = US2AK1 -> << -128, -122, 32, 38 >>
      [] name = US3AK1 -> << -100, -90, 30, 40 >>
      [] name = US7AK1 -> << -135, -124, 25, 35 >>

\* the directory listings a run may find under ENC_ROOT
MaxCells == 2

Listings == { L \in SUBSET DirNames : Cardinality(L) <= MaxCells }

\* the cell directories All_ENCs.zip unpacks into ENC_ROOT
ArchiveCells == { US1AK1 }

\* ------------------------------------------------------------------------
\* State
\* ------------------------------------------------------------------------

VARIABLES
    encbb,            \* SpecEnc: self.bb of the Enc object
    lastCall,         \* SpecEnc: the last spatial predicate called and its result
    args,             \* the parsed command line
    pc,               \* position of the main thread
    raised,           \* the uncaught exception that ended the run, or "none"
    encRoot,          \* ENC_ROOT: whether it exists, and its cell directories
    outDirs,          \* which of <work>/geojsons, <work>/mbtiles exist
    output_geojsons,  \* make_geojsons: grouping key -> list of directories
    geojsons,         \* files of <work>/geojsons
    mbtiles,          \* files of <work>/mbtiles with suffix .mbtiles
    bandfiles,        \* process_geojsons: band -> list of per-layer archives
    idx,              \* index of the main thread's current submission loop
    futures,          \* every future submitted so far -> its state
    queue,            \* the work queue of the current pool, first in first out
    config,           \* config.json: whether it was written, and its 'data' keys
    styles,           \* the style documents of ./styles, as json.load reads them
    styleOut,         \* the documents written to <work>/mbtiles/styles
    accPos,           \* SpecAcc: unit -> number of its cells written so far
    accFiles,         \* SpecAcc: the per-unit artifacts that exist
    accLog,           \* SpecAcc: the tool invocations so far, in order
    log,              \* the LOG.error records written so far
    nfail             \* number of failures of external tools so far

vars == << encbb, lastCall, args, pc, raised, encRoot, outDirs, output_geojsons,
           geojsons, mbtiles, bandfiles, idx, futures, queue, config, styles,
           styleOut, accPos, accFiles, accLog, log, nfail >>

encVars == << encbb, lastCall >>

styleVars == << styles, styleOut >>

accVars == << accPos, accFiles, accLog >>

runVars == << args, pc, raised, encRoot, outDirs, output_geojsons, geojsons,
              mbtiles, bandfiles, idx, futures, queue, config, styles,
              styleOut, log, nfail >>

\* ENC_ROOT is not a directory
Absent == [exists |-> FALSE, dirs |-> {}]

\* ENC_ROOT holds the cell directories dirs
Root(dirs) == [exists |-> TRUE, dirs |-> dirs]

\* config.json has not been written
Unwritten == [written |-> FALSE, data |-> {}]

\* ------------------------------------------------------------------------
\* Python dicts, kept in insertion order as sequences of [key, val]
\* ------------------------------------------------------------------------

HasKey(d, k) == \E n \in DOMAIN d : d[n].key = k

KeyIndex(d, k) == CHOOSE n \in DOMAIN d : d[n].key = k

Get(d, k) == d[KeyIndex(d, k)].val

\* d.setdefault(k, list()).append(v)
SetDefaultAppend(d, k, v) ==
    IF HasKey(d, k)
    THEN [d EXCEPT ![KeyIndex(d, k)].val = Append(@, v)]
    ELSE Append(d, [key |-> k, val |-> << v >>])

\* ------------------------------------------------------------------------
\* Files and tasks
\* ------------------------------------------------------------------------

\* <work>/geojsons/<stem>_<layer>.geojson
GeojsonFile(stem, layer) == [stem |-> stem, layer |-> layer]

\* <work>/mbtiles/BAND<band>_<layer>.mbtiles
LayerArchive(band, layer) == [band |-> band, layer |-> layer]

\* no layer: the archive is a merged one
NoLayer == ""

\* <work>/mbtiles/BAND<band>.mbtiles
BandArchive(band) == [band |-> band, layer |-> NoLayer]

\* the last character of an archive's stem, f.stem[-1]
StemLastChar(f) ==
    IF f.layer = NoLayer THEN Digit(f.band) ELSE LayerLastChar(f.layer)

NoCell == << >>

\* exec.submit(process_encs, infile, outf, lconf['type'], layer)
ConvTask(stem, layer) ==
    [kind |-> "conv", cell |-> stem, band |-> 0, layer |-> layer]

\* exec.submit(mkmbtiles, infiles, outf, lconf['type'], layer, BAND2ZOOM[band][1])
TileTask(band, layer) ==
    [kind |-> "tile", cell |-> NoCell, band |-> band, layer |-> layer]

\* exec.submit(mergetiles, infiles, outf)
MergeTask(band) ==
    [kind |-> "merge", cell |-> NoCell, band |-> band, layer |-> NoLayer]

\* a future: st is pending, running, done (returned), raised (holds an
\* exception) or collected (its result was consumed by the stage driver);
\* rc is the tool's exit status; pre is the set of the task's input archives
\* that were on disk when mergetiles invoked the tool
Future(st, rc, pre) == [st |-> st, rc |-> rc, pre |-> pre]

Submitted == DOMAIN futures

TasksOf(kind) == { t \in Submitted : t.kind = kind }

Unfinished(t) == futures[t].st \in { "pending", "running" }

Finished(t) == futures[t].st \in { "done", "raised" }

Running == { t \in Submitted : futures[t].st = "running" }

NoTask == [kind |-> "none", cell |-> NoCell, band |-> 0, layer |-> NoLayer]

\* one LOG.error record
LogRec(msg, task) == [msg |-> msg, task |-> task]

\* ------------------------------------------------------------------------
\* The worker pool                (concurrent.futures.ThreadPoolExecutor)
\* ------------------------------------------------------------------------

\* exec.submit(...): a new future; an idle worker thread takes it at once,
\* otherwise it waits at the tail of the work queue
Submit(t) ==
    IF Cardinality(Running) < args.jobs
    THEN /\ futures' = (t :> Future("running", 0, {})) @@ futures
         /\ UNCHANGED queue
    ELSE /\ futures' = (t :> Future("pending", 0, {})) @@ futures
         /\ queue' = Append(queue, t)

\* a pool that is left without waiting for its tasks
PoolDrained_nowait == TRUE

\* leaving the with block (shutdown(wait=True)) and the as_completed loop
\* that follows it: both return only when no submitted future is unfinished
PoolDrained == \A t \in Submitted : ~ Unfinished(t)

\* the as_completed loop: future.result() of every finished future
Collected(f) ==
    [t \in DOMAIN f |->
        IF f[t].st \in { "done", "raised" }
        THEN Future("collected", 0, {})
        ELSE f[t]]

\* except Exception as e: LOG.error(e)
CollectLog(f) ==
    { LogRec("task raised", t) : t \in { u \in DOMAIN f : f[u].st = "raised" } }

\* a pool whose workers run no further work item once a task has failed
WorkerNext_halts(f, q) ==
    IF q = << >> \/ \E t \in DOMAIN f : f[t].st = "raised" \/ f[t].rc # 0
    THEN f
    ELSE [f EXCEPT ![Head(q)].st = "running"]

\* the worker thread whose work item has ended takes the oldest item of the
\* work queue q, if there is one: f is the futures map with the ended item
WorkerNext(f, q) ==
    IF q = << >>
    THEN f
    ELSE [f EXCEPT ![Head(q)].st = "running"]

\* the work queue once that worker has taken its next item
QueueRest(q) == IF q = << >> THEN q ELSE Tail(q)

\* what subprocess.run of an installed external tool returns: proc.returncode
\* is zero or it is not
ToolOutcomes == { "zero", "nonzero" }

MayFail == nfail < MaxFailures

\* ------------------------------------------------------------------------
\* __main__                                            (encdl.py 365-411)
\* ------------------------------------------------------------------------

\* the position after stage number k (0 root check, 1 --geojson, 2 --tile):
\* the next of the if args.geojson / if args.tile / if args.style blocks
StageAfter(k) ==
    IF k < 1 /\ args.geojson THEN "geojson"
    ELSE IF k < 2 /\ args.tile THEN "tile_submit"
    ELSE IF args.style THEN "style"
    ELSE "done"

\* get_enc that logs a failed download or extraction and returns
get_enc_noraise ==
    /\ pc = "start"
    /\ args.get
    /\ \E outcome \in { "ok", "curl failed", "bad zip" } :
          IF outcome = "ok"
          THEN /\ encRoot' = Root(encRoot.dirs \cup ArchiveCells)
               /\ UNCHANGED log
          ELSE /\ log' = log \cup { LogRec(outcome, NoTask) }
               /\ UNCHANGED encRoot
    /\ pc' = "check_root"
    /\ UNCHANGED << encVars, styleVars, accVars, outDirs, args, raised,
                    output_geojsons, geojsons, mbtiles, bandfiles, idx,
                    futures, queue, config, nfail >>

\* get_enc(work_dir): curl, then ZipFile.extractall
get_enc ==
    /\ pc = "start"
    /\ args.get
    /\ \E outcome \in { "ok", "curl failed", "bad zip" } :
          IF outcome = "ok"
          THEN /\ encRoot' = Root(encRoot.dirs \cup ArchiveCells)
               /\ pc' = "check_root"
               /\ UNCHANGED << raised, log >>
          ELSE /\ log' = log \cup { LogRec(outcome, NoTask) }
               /\ raised' = outcome
               /\ pc' = "aborted"
               /\ UNCHANGED encRoot
    /\ UNCHANGED << encVars, styleVars, accVars, outDirs, args,
                    output_geojsons, geojsons, mbtiles, bandfiles, idx,
                    futures, queue, config, nfail >>

\* if not encdir.is_dir(): LOG.error(...), and on to the selected stages
check_enc_root ==
    /\ \/ pc = "check_root"
       \/ pc = "start" /\ ~ args.get
    /\ log' = IF encRoot.exists
              THEN log
              ELSE log \cup { LogRec("ENC_ROOT does not exist", NoTask) }
    /\ pc' = StageAfter(0)
    /\ idx' = 1
    /\ UNCHANGED << encVars, styleVars, accVars, outDirs, args, raised,
                    encRoot, output_geojsons, geojsons, mbtiles, bandfiles,
                    futures, queue, config, nfail >>

\* ------------------------------------------------------------------------
\* make_geojsons and process_encs                      (encdl.py 149-210)
\* ------------------------------------------------------------------------

RECURSIVE Flatten(_)
\* the concatenation of a sequence of sequences
Flatten(ss) == IF ss = << >> THEN << >> ELSE Head(ss) \o Flatten(Tail(ss))

\* enc_dir.iterdir(): the directories of ENC_ROOT
IterDir(root) ==
    LET present(d) == d \in root.dirs
    IN  SelectSeq(DirOrder, present)

\* the key taken one character too early
GroupKey_offbyone(entry) == << entry[2], "US" >>

\* key = (entry.stem[2], 'US')  # entry.stem[3:5])
GroupKey(entry) == << entry[3], "US" >>

RECURSIVE GroupDirs(_, _)
\* for entry in enc_dir.iterdir(): output_geojsons.setdefault(key, list()).append(entry)
GroupDirs(d, entries) ==
    IF entries = << >>
    THEN d
    ELSE GroupDirs(SetDefaultAppend(d, GroupKey(Head(entries)), Head(entries)),
                   Tail(entries))

\* Enc(x).bb after Enc.__init__: the extent of layer 1, or None when the
\* S57 driver raised
EncBB(x) == Extent(x)

\* the input files Enc.within would select
Infiles_within(directories) ==
    LET hit(x) == within(EncBB(x), args.bb)
    IN  SelectSeq(directories, hit)

\* infiles = list(filter(lambda x: Enc(x).intersects(bb), [...]))
Infiles(directories) ==
    LET hit(x) == intersects(EncBB(x), args.bb)
    IN  SelectSeq(directories, hit)

\* for layer, lconf in CFG['layers'].items(): ... exec.submit(process_encs, ...)
InfileTasks(infile) == [k \in DOMAIN Layers |-> ConvTask(infile, Layers[k])]

\* the submissions of the with block, in order: units, then infiles, then layers
ConvWork(og) ==
    Flatten([u \in DOMAIN og |->
        Flatten([k \in DOMAIN Infiles(og[u].val) |->
            InfileTasks(Infiles(og[u].val)[k])])])

\* lines 150-160: out_dir is made, then the directories of ENC_ROOT are
\* grouped by key; iterdir raises
\* FileNotFoundError when ENC_ROOT does not exist. The LOG.error of every
\* Enc whose extent cannot be read is recorded here, where the cells are
\* listed
make_geojsons_index ==
    /\ pc = "geojson"
    /\ IF encRoot.exists
       THEN /\ output_geojsons' = GroupDirs(<< >>, IterDir(encRoot))
            /\ log' = log \cup
                 { LogRec("Error reading S57 file", ConvTask(x, NoLayer)) :
                     x \in { y \in encRoot.dirs : EncBB(y) = None } }
            /\ pc' = "geojson_submit"
            /\ UNCHANGED raised
       ELSE /\ raised' = "FileNotFoundError"
            /\ pc' = "aborted"
            /\ UNCHANGED << output_geojsons, log >>
    /\ idx' = 1
    /\ outDirs' = outDirs \cup { "geojsons" }
    /\ UNCHANGED << encVars, styleVars, accVars, args, encRoot, geojsons,
                    mbtiles, bandfiles, futures, queue, config, nfail >>

\* one exec.submit of the loop at lines 163-175
make_geojsons_submit ==
    /\ pc = "geojson_submit"
    /\ idx <= Len(ConvWork(output_geojsons))
    /\ Submit(ConvWork(output_geojsons)[idx])
    /\ idx' = idx + 1
    /\ UNCHANGED << encVars, styleVars, accVars, outDirs, args, pc, raised,
                    encRoot, output_geojsons, geojsons, mbtiles, bandfiles,
                    config, log, nfail >>

\* end of the with block, the as_completed loop at 176-182, and the return
make_geojsons_drain ==
    /\ pc = "geojson_submit"
    /\ idx > Len(ConvWork(output_geojsons))
    /\ PoolDrained
    /\ futures' = Collected(futures)
    /\ log' = log \cup CollectLog(futures)
    /\ pc' = StageAfter(1)
    /\ idx' = 1
    /\ UNCHANGED << encVars, styleVars, accVars, outDirs, args, raised,
                    encRoot, output_geojsons, geojsons, mbtiles, bandfiles,
                    queue, config, nfail >>

\* process_encs(infile, outfile, dtype, layer) returns: ogr2ogr
\* writes outfile when it exits zero
process_encs(t) ==
    /\ futures[t].st = "running"
    /\ t.kind = "conv"
    /\ \E outcome \in ToolOutcomes :
          CASE outcome = "zero" ->
                 /\ geojsons' = geojsons \cup { GeojsonFile(t.cell, t.layer) }
                 /\ futures' = WorkerNext(
                      [futures EXCEPT ![t] = Future("done", 0, {})], queue)
                 /\ UNCHANGED << log, nfail >>
            [] outcome = "nonzero" ->
                 /\ MayFail
                 /\ log' = log \cup { LogRec("Failed to generate GeoJSON", t) }
                 /\ futures' = WorkerNext(
                      [futures EXCEPT ![t] = Future("done", 1, {})], queue)
                 /\ nfail' = nfail + 1
                 /\ UNCHANGED geojsons
    /\ queue' = QueueRest(queue)
    /\ UNCHANGED << encVars, styleVars, accVars, outDirs, args, pc, raised,
                    encRoot, output_geojsons, mbtiles, bandfiles, idx,
                    config >>

\* ------------------------------------------------------------------------
\* process_geojsons, mkmbtiles and mergetiles          (encdl.py 213-307)
\* ------------------------------------------------------------------------

\* for band in range(9, 0, -1)
TopBand == 9

\* the (layer, band) groups in loop order: layers outside, bands 9 down to 1
NumGroups == Len(Layers) * TopBand

GroupLayer(k) == Layers[((k - 1) \div TopBand) + 1]

GroupBand(k) == TopBand - ((k - 1) % TopBand)

\* geojsons_dir.glob(f'US{band}*{layer}.geojson') over the files
\* <stem>_<layer>.geojson: the name starts with US and the band's digit and
\* ends with the layer's name (the configured layer names have one length,
\* so a name ends with a layer's name only if it is that layer's file)
Glob(band, layer) ==
    { f \in geojsons :
        /\ f.stem[1] = "U"
        /\ f.stem[2] = "S"
        /\ f.stem[3] = Digit(band)
        /\ f.layer = layer }

\* the z argument of exec.submit(mkmbtiles, ..., BAND2ZOOM[band][1]): the
\* lookup is defined only for a band that is a key
ZoomArg(band) == BAND2ZOOM[band][2]

\* the groups from position i on that are not skipped by 'if not infiles'
GroupsFrom(i) ==
    { k \in i..NumGroups : Glob(GroupBand(k), GroupLayer(k)) # {} }

NextGroup(i) == CHOOSE k \in GroupsFrom(i) : \A j \in GroupsFrom(i) : k <= j

\* one pass of the loop body at lines 226-235 for the next group with input
\* files (out_dir exists from line 219 on): BAND2ZOOM[band] raises KeyError
\* for a band that is not a key,
\* after bandfiles was updated, and the exception leaves the with block
process_geojsons_submit ==
    /\ pc = "tile_submit"
    /\ GroupsFrom(idx) # {}
    /\ LET k == NextGroup(idx)
           band == GroupBand(k)
           layer == GroupLayer(k)
       IN  /\ bandfiles' =
                SetDefaultAppend(bandfiles, band, LayerArchive(band, layer))
           /\ idx' = k + 1
           /\ IF band \in DOMAIN BAND2ZOOM
              THEN /\ Submit(TileTask(band, layer))
                   /\ UNCHANGED pc
              ELSE /\ pc' = "tile_keyerror"
                   /\ UNCHANGED << futures, queue >>
    /\ outDirs' = outDirs \cup { "mbtiles" }
    /\ UNCHANGED << encVars, styleVars, accVars, args, raised, encRoot,
                    output_geojsons, geojsons, mbtiles, config, log, nfail >>

\* the KeyError leaves the with block, whose exit waits for the submitted
\* tasks, and then ends the run
process_geojsons_keyerror ==
    /\ pc = "tile_keyerror"
    /\ PoolDrained
    /\ raised' = "KeyError"
    /\ pc' = "aborted"
    /\ UNCHANGED << encVars, styleVars, accVars, outDirs, args, encRoot,
                    output_geojsons, geojsons, mbtiles, bandfiles, idx,
                    futures, queue, config, log, nfail >>

\* end of the first with block and the as_completed loop at 236-241
process_geojsons_tiles_drain ==
    /\ pc = "tile_submit"
    /\ GroupsFrom(idx) = {}
    /\ PoolDrained
    /\ futures' = Collected(futures)
    /\ log' = log \cup CollectLog(futures)
    /\ pc' = "merge_submit"
    /\ idx' = 1
    /\ outDirs' = outDirs \cup { "mbtiles" }
    /\ UNCHANGED << encVars, styleVars, accVars, args, raised, encRoot,
                    output_geojsons, geojsons, mbtiles, bandfiles, queue,
                    config, nfail >>

\* mkmbtiles(infiles, outfile, dtype, layer, z) returns: tippecanoe
\* writes outfile when it exits zero
mkmbtiles(t) ==
    /\ futures[t].st = "running"
    /\ t.kind = "tile"
    /\ \E outcome \in ToolOutcomes :
          CASE outcome = "zero" ->
                 /\ mbtiles' = mbtiles \cup { LayerArchive(t.band, t.layer) }
                 /\ futures' = WorkerNext(
                      [futures EXCEPT ![t] = Future("done", 0, {})], queue)
                 /\ UNCHANGED << log, nfail >>
            [] outcome = "nonzero" ->
                 /\ MayFail
                 /\ log' = log \cup { LogRec("Failed to generate mbtiles", t) }
                 /\ futures' = WorkerNext(
                      [futures EXCEPT ![t] = Future("done", 1, {})], queue)
                 /\ nfail' = nfail + 1
                 /\ UNCHANGED mbtiles
    /\ queue' = QueueRest(queue)
    /\ UNCHANGED << encVars, styleVars, accVars, outDirs, args, pc, raised,
                    encRoot, output_geojsons, geojsons, bandfiles, idx,
                    config >>

\* one exec.submit of the loop at lines 246-249
process_geojsons_merge_submit ==
    /\ pc = "merge_submit"
    /\ idx <= Len(bandfiles)
    /\ Submit(MergeTask(bandfiles[idx].key))
    /\ idx' = idx + 1
    /\ UNCHANGED << encVars, styleVars, accVars, outDirs, args, pc, raised,
                    encRoot, output_geojsons, geojsons, mbtiles, bandfiles,
                    config, log, nfail >>

\* end of the second with block, the as_completed loop at 251-256, the return
process_geojsons_merge_drain ==
    /\ pc = "merge_submit"
    /\ idx > Len(bandfiles)
    /\ PoolDrained
    /\ futures' = Collected(futures)
    /\ log' = log \cup CollectLog(futures)
    /\ pc' = StageAfter(2)
    /\ idx' = 1
    /\ UNCHANGED << encVars, styleVars, accVars, outDirs, args, raised,
                    encRoot, output_geojsons, geojsons, mbtiles, bandfiles,
                    queue, config, nfail >>

\* an unlink loop that deletes nothing
Unlink_none(files, infiles) == [files |-> files, ok |-> TRUE]

RECURSIVE Unlink(_, _)
\* for f in infiles: f.unlink() -- the files left on disk, and whether the
\* loop ended without FileNotFoundError
Unlink(files, infiles) ==
    IF infiles = << >>
    THEN [files |-> files, ok |-> TRUE]
    ELSE IF Head(infiles) \in files
         THEN Unlink(files \ { Head(infiles) }, Tail(infiles))
         ELSE [files |-> files, ok |-> FALSE]

\* the elements of a sequence
Range(s) == { s[k] : k \in DOMAIN s }

\* mergetiles(infiles, outfile) returns or raises: tile-join writes outfile
\* when it exits zero, which it cannot do when an input archive is missing;
\* the unlink loop runs whatever the exit status
mergetiles(t) ==
    /\ futures[t].st = "running"
    /\ t.kind = "merge"
    /\ LET infiles == Get(bandfiles, t.band)
           pre == Range(infiles) \cap mbtiles
       IN  \E outcome \in ToolOutcomes :
             CASE outcome = "zero" ->
                    /\ Range(infiles) \subseteq mbtiles
                    /\ LET u == Unlink(mbtiles \cup { BandArchive(t.band) }, infiles)
                       IN  /\ mbtiles' = u.files
                           /\ futures' = WorkerNext(
                                [futures EXCEPT ![t] = Future(
                                    IF u.ok THEN "done" ELSE "raised", 0, pre)],
                                queue)
                    /\ UNCHANGED << log, nfail >>
               [] outcome = "nonzero" ->
                    /\ MayFail \/ ~ (Range(infiles) \subseteq mbtiles)
                    /\ log' = log \cup { LogRec("Failed to merge mbtiles", t) }
                    /\ LET u == Unlink(mbtiles, infiles)
                       IN  /\ mbtiles' = u.files
                           /\ futures' = WorkerNext(
                                [futures EXCEPT ![t] = Future(
                                    IF u.ok THEN "done" ELSE "raised", 1, pre)],
                                queue)
                    /\ nfail' = IF Range(infiles) \subseteq mbtiles
                                THEN nfail + 1
                                ELSE nfail
    /\ queue' = QueueRest(queue)
    /\ UNCHANGED << encVars, styleVars, accVars, outDirs, args, pc, raised,
                    encRoot, output_geojsons, geojsons, bandfiles, idx,
                    config >>

\* ------------------------------------------------------------------------
\* make_tile_config                                    (encdl.py 310-360)
\* ------------------------------------------------------------------------

\* the stem of an archive's file name
Stem(f) ==
    IF f.layer = NoLayer
    THEN << "BAND", Digit(f.band) >>
    ELSE << "BAND", Digit(f.band), "_", f.layer >>

\* the rank of the rest of an archive's name after BAND<band>: ".mbtiles"
\* sorts before "_<layer>.mbtiles", and the layers sort by name
LayerRank(layer) ==
    CASE layer = NoLayer -> 0
      [] layer = "DEPCNT" -> 1
      [] layer = "LNDARE" -> 2
      [] layer = "SOUNDG" -> 3

\* the order of two archive paths under data.sort()
ArchiveBefore(f, g) ==
    \/ f.band < g.band
    \/ f.band = g.band /\ LayerRank(f.layer) < LayerRank(g.layer)

RECURSIVE SortedData(_)
\* data = [p for p in out_dir.iterdir() if p.suffix == '.mbtiles']; data.sort()
SortedData(files) ==
    IF files = {}
    THEN << >>
    ELSE LET first == CHOOSE f \in files :
                        \A g \in files \ { f } : ArchiveBefore(f, g)
         IN  << first >> \o SortedData(files \ { first })

\* bands = [int(f.stem[-1]) for f in data]
Bands(data) == [k \in DOMAIN data |-> IntOf(StemLastChar(data[k]))]

\* max(bands) and min(bands) of a non-empty list
MaxOf(bands) == CHOOSE x \in Range(bands) : \A y \in Range(bands) : y <= x

MinOf(bands) == CHOOSE x \in Range(bands) : \A y \in Range(bands) : x <= y

\* lambda l: 'source-layer' in l and 'source' not in l, with a layer rule
\* (a dict) as the function from its keys to their values
IsTemplate(l) == "source-layer" \in DOMAIN l /\ "source" \notin DOMAIN l

\* layers = filter(lambda l: 'source-layer' in l and 'source' not in l, ...)
Templates(layers) == SelectSeq(layers, IsTemplate)

\* a filter that keeps every rule
Untouched_all(layers) == layers

\* s['layers'] = list(filter(lambda l: not (...), s['layers']))
Untouched(layers) ==
    LET other(l) == ~ IsTemplate(l)
    IN  SelectSeq(layers, other)

\* the zoom lookups of lines 352-357 that are made for a rule and an archive
NeedsMax(layer, band, bands) ==
    "maxzoom" \notin DOMAIN layer /\ band < MaxOf(bands)

NeedsMin(layer, band, bands) ==
    "minzoom" \notin DOMAIN layer /\ band > MinOf(bands)

\* BAND2ZOOM[band] raises KeyError when a lookup is made for a band that is
\* not a key
NewLayerRaises(layer, d, bands) ==
    LET band == IntOf(StemLastChar(d))
    IN  /\ NeedsMax(layer, band, bands) \/ NeedsMin(layer, band, bands)
        /\ band \notin DOMAIN BAND2ZOOM

\* a synthesis that bounds every band on both sides
NewLayer_allbounds(layer, d, bands) ==
    LET band == IntOf(StemLastChar(d))
        l1 == ("id" :> (layer["id"] \o << "-" >> \o Stem(d))) @@ layer
        l2 == ("source" :> Stem(d)) @@ l1
        l3 == IF "maxzoom" \notin DOMAIN l2 /\ band \in DOMAIN BAND2ZOOM
              THEN ("maxzoom" :> BAND2ZOOM[band][2]) @@ l2
              ELSE l2
    IN  IF "minzoom" \notin DOMAIN l3 /\ band \in DOMAIN BAND2ZOOM
        THEN ("minzoom" :> BAND2ZOOM[band][1]) @@ l3
        ELSE l3

\* a synthesis that sets the zoom bounds whether or not the rule has them
NewLayer_overwrite(layer, d, bands) ==
    LET band == IntOf(StemLastChar(d))
        l1 == ("id" :> (layer["id"] \o << "-" >> \o Stem(d))) @@ layer
        l2 == ("source" :> Stem(d)) @@ l1
        l3 == IF band < MaxOf(bands) /\ band \in DOMAIN BAND2ZOOM
              THEN ("maxzoom" :> BAND2ZOOM[band][2]) @@ l2
              ELSE l2
    IN  IF band > MinOf(bands) /\ band \in DOMAIN BAND2ZOOM
        THEN ("minzoom" :> BAND2ZOOM[band][1]) @@ l3
        ELSE l3

\* lines 348-358: newlayer = layer.copy(), its id and source, and the zoom
\* bounds the rule does not have
NewLayer(layer, d, bands) ==
    LET band == IntOf(StemLastChar(d))
        l1 == ("id" :> (layer["id"] \o << "-" >> \o Stem(d))) @@ layer
        l2 == ("source" :> Stem(d)) @@ l1
        l3 == IF "maxzoom" \notin DOMAIN l2 /\ band < MaxOf(bands)
              THEN ("maxzoom" :> BAND2ZOOM[band][2]) @@ l2
              ELSE l2
    IN  IF "minzoom" \notin DOMAIN l3 /\ band > MinOf(bands)
        THEN ("minzoom" :> BAND2ZOOM[band][1]) @@ l3
        ELSE l3

\* for layer in layers: for d in data: ... s['layers'].append(newlayer)
Synth(templates, data) ==
    Flatten([i \in DOMAIN templates |->
        [k \in DOMAIN data |-> NewLayer(templates[i], data[k], Bands(data))]])

\* the loops at 346-358 raise KeyError
ExpandRaises(doc, data) ==
    \E i \in DOMAIN Templates(doc.layers) : \E k \in DOMAIN data :
        NewLayerRaises(Templates(doc.layers)[i], data[k], Bands(data))

\* lines 332-359 for one style document: the document json.dump writes
ExpandDoc(doc, data) ==
    [sources |-> doc.sources \cup { Stem(data[k]) : k \in DOMAIN data },
     layers |-> Untouched(doc.layers) \o Synth(Templates(doc.layers), data)]

\* the documents written by the loop at 331-359: every one when no
\* expansion raises, otherwise those before the first that raises
StylesWritten(docs, data) ==
    LET bad == { k \in DOMAIN docs : ExpandRaises(docs[k], data) }
        n == IF bad = {}
             THEN Len(docs)
             ELSE (CHOOSE k \in bad : \A j \in bad : k <= j) - 1
    IN  [k \in 1..n |-> ExpandDoc(docs[k], data)]

\* style_dir.mkdir() raises FileNotFoundError when <work>/mbtiles does not
\* exist; data = [p for p in out_dir.iterdir() if p.suffix == '.mbtiles'];
\* bands = [int(f.stem[-1]) for f in data] raises ValueError for a stem that
\* does not end in a digit; config.json is written with one 'data' entry per
\* archive; then every style document is expanded and written, until a
\* BAND2ZOOM lookup raises KeyError
make_tile_config ==
    /\ pc = "style"
    /\ IF "mbtiles" \notin outDirs
       THEN /\ raised' = "FileNotFoundError"
            /\ pc' = "aborted"
            /\ UNCHANGED << config, styleOut >>
       ELSE IF \A f \in mbtiles : IsDigit(StemLastChar(f))
       THEN /\ config' = [written |-> TRUE, data |-> mbtiles]
            /\ styleOut' = StylesWritten(styles, SortedData(mbtiles))
            /\ IF \E k \in DOMAIN styles :
                    ExpandRaises(styles[k], SortedData(mbtiles))
               THEN raised' = "KeyError" /\ pc' = "aborted"
               ELSE pc' = "done" /\ UNCHANGED raised
       ELSE /\ raised' = "ValueError"
            /\ pc' = "aborted"
            /\ UNCHANGED << config, styleOut >>
    /\ UNCHANGED << encVars, accVars, outDirs, args, encRoot, output_geojsons,
                    geojsons, mbtiles, bandfiles, idx, futures, queue, styles,
                    log, nfail >>

\* ------------------------------------------------------------------------
\* The paths the tasks write and delete
\* ------------------------------------------------------------------------

\* the path of an archive in <work>/mbtiles
ArchivePath(f) == << "mbtiles" >> \o Stem(f) \o << ".mbtiles" >>

\* output names in which the tiling stage leaves out the layer
OutPath_nolayer(t) ==
    CASE t.kind = "conv" ->
           << "geojsons" >> \o t.cell \o << "_", t.layer, ".geojson" >>
      [] t.kind = "tile" -> << "mbtiles", "BAND", Digit(t.band), ".mbtiles" >>
      [] t.kind = "merge" -> << "mbtiles", "BAND", Digit(t.band), ".mbtiles" >>

\* outf of a task: f'{infile.stem}_{layer}.geojson' in out_dir (line 172),
\* f'BAND{band}_{layer}.mbtiles' (line 227), f'BAND{band}.mbtiles' (line 247)
OutPath(t) ==
    CASE t.kind = "conv" ->
           << "geojsons" >> \o t.cell \o << "_", t.layer, ".geojson" >>
      [] t.kind = "tile" ->
           << "mbtiles", "BAND", Digit(t.band), "_", t.layer, ".mbtiles" >>
      [] t.kind = "merge" -> << "mbtiles", "BAND", Digit(t.band), ".mbtiles" >>

\* the paths a running task writes or deletes: its output, and for
\* mergetiles the input archives its unlink loop removes
Touches(t) ==
    { OutPath(t) } \cup
    ( IF t.kind = "merge"
      THEN { ArchivePath(f) : f \in Range(Get(bandfiles, t.band)) }
      ELSE {} )

\* the tasks the tiling loop submits, in loop order, for the files present
TileWork ==
    LET groups == { k \in 1..NumGroups :
                      Glob(GroupBand(k), GroupLayer(k)) # {} }
        nth(j) == CHOOSE k \in groups :
                      Cardinality({ m \in groups : m <= k }) = j
    IN  [j \in 1..Cardinality(groups) |->
            TileTask(GroupBand(nth(j)), GroupLayer(nth(j)))]

\* the tasks the merge loop submits: for band, infiles in bandfiles.items()
MergeWork == [n \in DOMAIN bandfiles |-> MergeTask(bandfiles[n].key)]

\* ------------------------------------------------------------------------
\* Style documents and archive sets
\* ------------------------------------------------------------------------

\* layer rules of a style document: template rules without a zoom bound,
\* with minzoom, with maxzoom and with both, a rule without source-layer,
\* and a rule with a source of its own
RuleLand ==
    [id |-> << "land" >>, type |-> "fill"] @@ ("source-layer" :> "LNDARE")

RuleDepth ==
    [id |-> << "depth" >>, type |-> "line", minzoom |-> 3]
        @@ ("source-layer" :> "DEPCNT")

RuleSounding ==
    [id |-> << "sounding" >>, type |-> "symbol", maxzoom |-> 9]
        @@ ("source-layer" :> "SOUNDG")

RuleLabel ==
    [id |-> << "label" >>, type |-> "symbol", minzoom |-> 2, maxzoom |-> 17]
        @@ ("source-layer" :> "SOUNDG")

RuleBackground == [id |-> << "background" >>, type |-> "background"]

RuleCoast ==
    [id |-> << "coast" >>, type |-> "line", source |-> << "osm" >>]
        @@ ("source-layer" :> "coastline")

RuleChoices ==
    { RuleLand, RuleDepth, RuleSounding, RuleLabel, RuleBackground, RuleCoast }

\* the layer lists of the style documents: no rule twice
RuleSeqs ==
    { ls \in UNION { [1..n -> RuleChoices] : n \in 0..MaxRules } :
        \A i, j \in DOMAIN ls : i # j => ls[i] # ls[j] }

StyleDocs == { [sources |-> { << "osm" >> }, layers |-> ls] : ls \in RuleSeqs }

\* the style document of the runs of Spec
DefaultStyle ==
    [sources |-> { << "osm" >> }, layers |-> << RuleBackground, RuleLand >>]

\* the archives <work>/mbtiles may hold when make_tile_config is entered:
\* merged archives of bands 1 to 7 and a per-layer archive
ArchiveChoices ==
    { BandArchive(b) : b \in 1..7 } \cup { LayerArchive(1, "LNDARE") }

ArchiveSets ==
    { A \in SUBSET ArchiveChoices : Cardinality(A) <= MaxArchives }

\* ------------------------------------------------------------------------
\* The run
\* ------------------------------------------------------------------------

\* the accumulator mode is not in use
AccIdle ==
    /\ accPos = << >>
    /\ accFiles = {}
    /\ accLog = << >>

NoCall == [op |-> "none", env |-> None, res |-> FALSE]

Init ==
    /\ encbb = None
    /\ lastCall = NoCall
    /\ args \in [ get : BOOLEAN, geojson : BOOLEAN, tile : BOOLEAN,
                  style : BOOLEAN, jobs : { 1, MaxJobs }, bb : { QueryBox } ]
    /\ pc = "start"
    /\ raised = "none"
    /\ encRoot \in IF args.get
                   THEN { Absent }
                   ELSE { Absent } \cup { Root(L) : L \in Listings }
    /\ outDirs \in SUBSET { "geojsons", "mbtiles" }
    /\ output_geojsons = << >>
    /\ geojsons = {}
    /\ mbtiles = {}
    /\ bandfiles = << >>
    /\ idx = 1
    /\ futures = << >>
    /\ queue = << >>
    /\ config = Unwritten
    /\ styles = << DefaultStyle >>
    /\ styleOut = << >>
    /\ AccIdle
    /\ log = {}
    /\ nfail = 0

Next ==
    \/ get_enc
    \/ check_enc_root
    \/ make_geojsons_index
    \/ make_geojsons_submit
    \/ make_geojsons_drain
    \/ process_geojsons_submit
    \/ process_geojsons_keyerror
    \/ process_geojsons_tiles_drain
    \/ process_geojsons_merge_submit
    \/ process_geojsons_merge_drain
    \/ make_tile_config
    \/ \E t \in Running : process_encs(t)
    \/ \E t \in Running : mkmbtiles(t)
    \/ \E t \in Running : mergetiles(t)

Spec == Init /\ [][Next]_vars

\* ------------------------------------------------------------------------
\* make_tile_config on its own: --style alone in a work directory that
\* holds tile archives
\* ------------------------------------------------------------------------

InitStyle ==
    /\ encbb = None
    /\ lastCall = NoCall
    /\ args = [ get |-> FALSE, geojson |-> FALSE, tile |-> FALSE,
                style |-> TRUE, jobs |-> 1, bb |-> QueryBox ]
    /\ pc = "style"
    /\ raised = "none"
    /\ encRoot = Root({})
    /\ outDirs = { "mbtiles" }
    /\ output_geojsons = << >>
    /\ geojsons = {}
    /\ mbtiles \in ArchiveSets
    /\ bandfiles = << >>
    /\ idx = 1
    /\ futures = << >>
    /\ queue = << >>
    /\ config = Unwritten
    /\ styles \in { << doc >> : doc \in StyleDocs }
    /\ styleOut = << >>
    /\ AccIdle
    /\ log = {}
    /\ nfail = 0

NextStyle == make_tile_config

SpecStyle == InitStyle /\ [][NextStyle]_vars

\* ------------------------------------------------------------------------
\* The accumulator mode of the conversion stage (design document, 4.2):
\* one invocation per cell of an OutputUnit, appending into the unit's
\* artifact; the writes of one unit are serialized in cell order, units
\* proceed independently of each other
\* ------------------------------------------------------------------------

\* the chart roots of SpecAcc
AccListings == { L \in SUBSET DirNames : Cardinality(L) <= MaxAccCells }

\* the artifact of the OutputUnit with grouping key key
AccArtifact(key) == << "dbs" >> \o key

\* an invocation that always creates
AccMode_create(exists) == "create"

\* the mode of a write: create for an artifact that does not exist yet,
\* append for one that does
AccMode(exists) == IF exists THEN "append" ELSE "create"

\* the grouping is done, no artifact exists and nothing has been written
InitAcc ==
    /\ encbb = None
    /\ lastCall = NoCall
    /\ args = [ get |-> FALSE, geojson |-> TRUE, tile |-> FALSE,
                style |-> FALSE, jobs |-> 1, bb |-> QueryBox ]
    /\ pc = "geojson_submit"
    /\ raised = "none"
    /\ encRoot \in { Root(L) : L \in AccListings }
    /\ outDirs = { "geojsons" }
    /\ output_geojsons = GroupDirs(<< >>, IterDir(encRoot))
    /\ geojsons = {}
    /\ mbtiles = {}
    /\ bandfiles = << >>
    /\ idx = 1
    /\ futures = << >>
    /\ queue = << >>
    /\ config = Unwritten
    /\ styles = << >>
    /\ styleOut = << >>
    /\ accPos = [u \in DOMAIN output_geojsons |-> 0]
    /\ accFiles = {}
    /\ accLog = << >>
    /\ log = {}
    /\ nfail = 0

\* the next write of unit u: the conversion tool is invoked for the unit's
\* next cell, in create or append mode, and the artifact exists afterwards
acc_convert(u) ==
    /\ accPos[u] < Len(output_geojsons[u].val)
    /\ LET path == AccArtifact(output_geojsons[u].key)
           cell == output_geojsons[u].val[accPos[u] + 1]
       IN  /\ accLog' = Append(accLog,
                 [path |-> path, cell |-> cell,
                  mode |-> AccMode(path \in accFiles)])
           /\ accFiles' = accFiles \cup { path }
    /\ accPos' = [accPos EXCEPT ![u] = @ + 1]
    /\ UNCHANGED << encVars, runVars >>

NextAcc == \E u \in DOMAIN accPos : acc_convert(u)

SpecAcc == InitAcc /\ [][NextAcc]_vars

\* ------------------------------------------------------------------------
\* An Enc object and the calls of its predicates
\* ------------------------------------------------------------------------

\* the values of the run's variables while only an Enc object is exercised
RunIdle ==
    /\ args = [ get |-> FALSE, geojson |-> FALSE, tile |-> FALSE,
                style |-> FALSE, jobs |-> 1, bb |-> QueryBox ]
    /\ pc = "done"
    /\ raised = "none"
    /\ encRoot = Absent
    /\ outDirs = {}
    /\ output_geojsons = << >>
    /\ geojsons = {}
    /\ mbtiles = {}
    /\ bandfiles = << >>
    /\ idx = 1
    /\ futures = << >>
    /\ queue = << >>
    /\ config = Unwritten
    /\ styles = << >>
    /\ styleOut = << >>
    /\ AccIdle
    /\ log = {}
    /\ nfail = 0

\* self.bb = None, before the S57 driver is asked for the extent
InitEnc ==
    /\ encbb = None
    /\ lastCall = NoCall
    /\ RunIdle

\* Enc.__init__, lines 64-69: self.bb becomes the extent of layer 1, or stays
\* None when the driver raises
Enc_init ==
    /\ lastCall = NoCall
    /\ \E ext \in Envelopes \cup { None } :
          /\ encbb' = ext
          /\ lastCall' = [op |-> "init", env |-> None, res |-> ext # None]
    /\ UNCHANGED << runVars, accVars >>

\* a call of self.within(env)
Enc_within ==
    /\ lastCall # NoCall
    /\ \E env \in Envelopes :
          lastCall' = [op |-> "within", env |-> env, res |-> within(encbb, env)]
    /\ UNCHANGED << encbb, runVars, accVars >>

\* a call of self.intersects(env)
Enc_intersects ==
    /\ lastCall # NoCall
    /\ \E env \in Envelopes :
          lastCall' = [op |-> "intersects", env |-> env,
                       res |-> intersects(encbb, env)]
    /\ UNCHANGED << encbb, runVars, accVars >>

NextEnc ==
    \/ Enc_init
    \/ Enc_within
    \/ Enc_intersects

SpecEnc == InitEnc /\ [][NextEnc]_vars

\* ------------------------------------------------------------------------
\* Properties of within and intersects
\* ------------------------------------------------------------------------

\* the points of a box on one axis
Span(lo, hi) == lo..hi

\* every point of the box b lies in the open interior of the envelope e
InsideInterior(b, e) ==
    /\ \A x \in Span(b[1], b[2]) : e[1] < x /\ x < e[2]
    /\ \A y \in Span(b[3], b[4]) : e[3] < y /\ y < e[4]

\* an edge of b lies on the same line as the corresponding edge of e
EdgeCoincides(b, e) == \E k \in 1..4 : b[k] = e[k]

\* C8: within returns true iff the cell's box lies strictly inside the query
\* envelope on all four sides; it returns false whenever an edge of the box
\* coincides with an edge of the envelope, and false for an unreadable
\* extent (None).
C8_WithinStrict ==
    lastCall.op = "within" =>
        /\ encbb = None => lastCall.res = FALSE
        /\ encbb # None =>
             /\ lastCall.res = InsideInterior(encbb, lastCall.env)
             /\ EdgeCoincides(encbb, lastCall.env) => lastCall.res = FALSE

\* a box that shares its left edge with the envelope and is otherwise
\* strictly inside it was tested and rejected
C8_Witness ==
    /\ lastCall.op = "within"
    /\ encbb # None
    /\ encbb[1] = lastCall.env[1]
    /\ encbb[2] < lastCall.env[2]
    /\ lastCall.env[3] < encbb[3]
    /\ encbb[4] < lastCall.env[4]
    /\ lastCall.res = FALSE

\* the two closed boxes have no common point on the x axis or none on the y
\* axis
DisjointOnAnAxis(b, e) ==
    \/ Span(b[1], b[2]) \cap Span(e[1], e[2]) = {}
    \/ Span(b[3], b[4]) \cap Span(e[3], e[4]) = {}

\* C9: for a readable extent intersects returns false iff box and envelope
\* are disjoint on at least one axis (so overlapping, edge-touching and
\* nested boxes give true); an unreadable extent (None) never matches.
C9_IntersectsOverlap ==
    lastCall.op = "intersects" =>
        /\ encbb = None => lastCall.res = FALSE
        /\ encbb # None =>
             (lastCall.res = FALSE <=> DisjointOnAnAxis(encbb, lastCall.env))

\* a box whose left edge is the envelope's right edge, with a common y
\* range, was tested and matched
C9_Witness ==
    /\ lastCall.op = "intersects"
    /\ encbb # None
    /\ encbb[1] = lastCall.env[2]
    /\ encbb[1] < encbb[2]
    /\ lastCall.env[1] < lastCall.env[2]
    /\ encbb[3] = lastCall.env[3]
    /\ lastCall.res = TRUE

\* ------------------------------------------------------------------------
\* Properties of the run
\* ------------------------------------------------------------------------

\* the run is over
Ended == pc \in { "done", "aborted" }

\* the per-layer input archives of the merge task t
MergeInputs(t) == Range(Get(bandfiles, t.band))

\* C1: after a merge whose tool exited non-zero, every one of the band's N
\* per-layer input archives is still on disk (here: for a merge that was
\* invoked with all N inputs present).
C1_FailedMergeKeepsInputs ==
    \A t \in TasksOf("merge") :
        ( /\ Finished(t)
          /\ futures[t].rc # 0
          /\ futures[t].pre = MergeInputs(t) )
        => MergeInputs(t) \subseteq mbtiles

\* C2: a step in which mergetiles returns after the merge tool exited zero
\* with all N input archives of the band present leaves none of the N
\* inputs on disk, and leaves the per-layer archives of every other band as
\* they were.
C2_SuccessfulMergeDeletesInputs ==
    [][ \A t \in TasksOf("merge") :
          ( /\ futures[t].st = "running"
            /\ futures'[t].st \in { "done", "raised" }
            /\ futures'[t].rc = 0
            /\ MergeInputs(t) \subseteq mbtiles )
          => /\ MergeInputs(t) \cap mbtiles' = {}
             /\ { f \in mbtiles' : f.band # t.band /\ f.layer # NoLayer }
                  = { f \in mbtiles : f.band # t.band /\ f.layer # NoLayer }
      ]_vars

\* a merge of at least two inputs has returned after a zero exit, its inputs
\* are gone, and a per-layer archive of another band is on disk
C2_Witness ==
    \E t \in TasksOf("merge") :
        /\ futures[t].st = "done"
        /\ futures[t].rc = 0
        /\ Cardinality(futures[t].pre) >= 2
        /\ futures[t].pre = MergeInputs(t)
        /\ MergeInputs(t) \cap mbtiles = {}
        /\ \E f \in mbtiles : f.band # t.band /\ f.layer # NoLayer

\* make_tile_config has been entered
StyleStarted == pc \in { "style", "done" } \/ raised = "ValueError"

\* C3: no tiling task is submitted or started while a conversion task is
\* pending or running, no merge task while a tiling task is pending or
\* running, and style/config synthesis starts only when every merge task
\* (and every other task) has finished.
C3_StageBarriers ==
    /\ \A t \in TasksOf("tile") : \A c \in TasksOf("conv") : ~ Unfinished(c)
    /\ \A m \in TasksOf("merge") : \A t \in TasksOf("tile") : ~ Unfinished(t)
    /\ StyleStarted => \A t \in Submitted : ~ Unfinished(t)

\* a merge task runs after conversion and tiling tasks of the same run, one
\* of which failed, were drained
C3_Witness ==
    /\ \E m \in TasksOf("merge") : futures[m].st = "running"
    /\ TasksOf("conv") # {}
    /\ TasksOf("tile") # {}
    /\ nfail > 0

\* no submitted task is pending or running
AllComplete == \A t \in Submitted : ~ Unfinished(t)

\* the stage driver of the tasks of this kind has returned
Returned(kind) ==
    CASE kind = "conv" -> pc \notin { "start", "check_root", "geojson",
                                      "geojson_submit" }
      [] kind = "tile" -> pc \notin { "start", "check_root", "geojson",
                                      "geojson_submit", "tile_submit",
                                      "tile_keyerror" }
      [] kind = "merge" -> pc \notin { "start", "check_root", "geojson",
                                       "geojson_submit", "tile_submit",
                                       "tile_keyerror", "merge_submit" }

\* C4: a submitted task is never cancelled (a pending future only ever
\* becomes running, a running one only done or raised), every submitted
\* task eventually completes whatever its siblings did (futures never go
\* back, so this is: again and again no submitted task is unfinished), and a
\* stage driver has returned only when all tasks of its stage have completed.
C4_NoCancellation ==
    /\ [][ \A t \in Submitted :
             /\ t \in DOMAIN futures'
             /\ futures[t].st = "pending"
                  => futures'[t].st \in { "pending", "running" }
             /\ futures[t].st = "running"
                  => futures'[t].st \in { "running", "done", "raised" } ]_vars
    /\ []<>AllComplete
    /\ [](\A t \in Submitted : Returned(t.kind) => ~ Unfinished(t))

\* the merge stage has returned after one of its tasks raised and another
\* one, submitted with it, ran to completion
C4_Witness ==
    /\ Returned("merge")
    /\ \E t \in TasksOf("merge") : LogRec("task raised", t) \in log
    /\ \E t \in TasksOf("merge") :
          /\ LogRec("task raised", t) \notin log
          /\ futures[t].st = "collected"

\* the cells that take part in the runs checked under fairness: the ones
\* whose extent intersects the query box, of two populated bands and of one
\* band without zoom range
FairCells == { US1AK1, US2AK1, US7AK1 }

\* the runs that have every stage selected, over those cells, in a work
\* directory that has no output directories yet
InitFair ==
    /\ Init
    /\ args.geojson
    /\ args.tile
    /\ args.style
    /\ encRoot.dirs \subseteq FairCells
    /\ outDirs = {}

\* those runs with weak fairness: the main thread and the pool's worker
\* threads are scheduled and the external tools return, so a step that stays
\* possible is eventually taken
SpecFair == InitFair /\ [][Next]_vars /\ WF_vars(Next)

\* a tiling task exited non-zero and left no archive
TilingFailed ==
    \E t \in TasksOf("tile") :
        /\ LogRec("Failed to generate mbtiles", t) \in log
        /\ LayerArchive(t.band, t.layer) \notin mbtiles

\* C5: a tiling task that exits non-zero and leaves no archive never aborts
\* the run: the merge task of every band is still run and, when --style is
\* selected, style/config synthesis completes without an uncaught error
\* (stated for runs that meet no band outside the Band-to-Zoom Map).
C5_ToolFailureNeverAborts ==
    ( /\ TilingFailed
      /\ Ended
      /\ raised # "KeyError" )
    => /\ raised = "none"
       /\ \A n \in DOMAIN bandfiles : MergeTask(bandfiles[n].key) \in Submitted
       /\ args.style => config.written

\* C6: when ENC_ROOT does not exist the run logs the error, enters every
\* selected stage and ends normally without an uncaught error (stated for
\* work directories whose mbtiles directory exists by the end of the run).
C6_MissingRootProceeds ==
    ( /\ LogRec("ENC_ROOT does not exist", NoTask) \in log
      /\ Ended
      /\ "mbtiles" \in outDirs )
    => /\ raised = "none"
       /\ args.style => config.written

\* get_enc found the download or the extraction to fail
AcquisitionFailed ==
    \/ LogRec("curl failed", NoTask) \in log
    \/ LogRec("bad zip", NoTask) \in log

\* C7: when the download tool exits non-zero or the archive cannot be
\* extracted, get_enc raises, the run is aborted, and no conversion, tiling,
\* merge or style work is ever started.
C7_AcquisitionFatal ==
    AcquisitionFailed =>
        /\ raised \in { "curl failed", "bad zip" }
        /\ pc = "aborted"
        /\ Submitted = {}
        /\ output_geojsons = << >>
        /\ ~ config.written

\* the extraction failed in a run that had every stage selected
C7_Witness ==
    /\ LogRec("bad zip", NoTask) \in log
    /\ raised = "bad zip"
    /\ args.geojson
    /\ args.tile
    /\ args.style

\* lines 157-160 have run
Indexed == pc \notin { "start", "check_root", "geojson" } /\ args.geojson

\* the directories a and b are in the list of one grouping key
SameUnit(a, b) ==
    \E n \in DOMAIN output_geojsons :
        /\ a \in Range(output_geojsons[n].val)
        /\ b \in Range(output_geojsons[n].val)

SameBandChar(a, b) == a[3] = b[3]

SameRegionChars(a, b) == a[4] = b[4] /\ a[5] = b[5]

\* C10 as stated: two cells whose names share the band character and the
\* region characters are in the same OutputUnit, and two cells that differ
\* in the band character or in the region characters are in different ones.
C10_GroupByBandAndRegion ==
    Indexed =>
        \A a, b \in encRoot.dirs :
            SameUnit(a, b) <=> (SameBandChar(a, b) /\ SameRegionChars(a, b))

\* C10 as amended: two cells are in the same OutputUnit iff their names share
\* the band character; the region characters play no part (the key's second
\* component is the constant 'US').
C10_GroupByBand ==
    Indexed =>
        /\ \A a, b \in encRoot.dirs : SameUnit(a, b) <=> SameBandChar(a, b)
        /\ \A n \in DOMAIN output_geojsons :
              output_geojsons[n].key[2] = "US"

\* two cells of one band and different regions were grouped into one unit
\* while a cell of another band went to another unit
C10_Witness ==
    /\ Indexed
    /\ \E a, b \in encRoot.dirs :
          /\ SameBandChar(a, b)
          /\ ~ SameRegionChars(a, b)
          /\ SameUnit(a, b)

\* ------------------------------------------------------------------------
\* Claims about make_tile_config
\* ------------------------------------------------------------------------

\* make_tile_config returned: config.json and every style document are
\* written
StylesDone == pc = "done" /\ args.style /\ Len(styleOut) = Len(styles)

\* the bands present among the tile archives
PresentBands == { f.band : f \in mbtiles }

LeastBand == CHOOSE b \in PresentBands : \A c \in PresentBands : b <= c

GreatestBand == CHOOSE b \in PresentBands : \A c \in PresentBands : c <= b

\* a template rule: it has 'source-layer' and no 'source'
TemplateRule(r) == "source-layer" \in DOMAIN r /\ "source" \notin DOMAIN r

\* a rule that pins no zoom bound
Unpinned(r) == "minzoom" \notin DOMAIN r /\ "maxzoom" \notin DOMAIN r

\* the id given to the layer synthesized from rule r for the archive of band b
SynthId(r, b) == r["id"] \o << "-", "BAND", DigitChars[b] >>

\* the layers of output document k that were synthesized from r for band b
SynthLayers(k, r, b) ==
    { n \in DOMAIN styleOut[k].layers :
        styleOut[k].layers[n]["id"] = SynthId(r, b) }

\* the unpinned template rules of input document k
UnpinnedRules(k) ==
    { r \in Range(styles[k].layers) : TemplateRule(r) /\ Unpinned(r) }

\* C11: the layer synthesized from a rule that pins no zoom bound, for an
\* archive of band b, has minzoom (the table's minimum of b) iff b is not
\* the least band present, and maxzoom (the table's maximum of b) iff b is
\* not the greatest band present.
C11_BoundsByBandPosition ==
    StylesDone =>
        \A k \in DOMAIN styleOut : \A r \in UnpinnedRules(k) :
            \A b \in PresentBands :
                /\ SynthLayers(k, r, b) # {}
                /\ \A n \in SynthLayers(k, r, b) :
                     LET l == styleOut[k].layers[n]
                     IN  /\ "minzoom" \in DOMAIN l <=> b # LeastBand
                         /\ "minzoom" \in DOMAIN l =>
                                l["minzoom"] = BAND2ZOOM[b][1]
                         /\ "maxzoom" \in DOMAIN l <=> b # GreatestBand
                         /\ "maxzoom" \in DOMAIN l =>
                                l["maxzoom"] = BAND2ZOOM[b][2]

\* a style with an unpinned template rule was written for the archives of
\* bands 2, 3 and 5
C11_Witness ==
    /\ StylesDone
    /\ PresentBands = { 2, 3, 5 }
    /\ \E k \in DOMAIN styleOut : UnpinnedRules(k) # {}

\* the lowest and highest zoom level of a layer, an absent bound being the
\* end of the zoom span
LowZoom(l) == IF "minzoom" \in DOMAIN l THEN l["minzoom"] ELSE 0

HighZoom(l) == IF "maxzoom" \in DOMAIN l THEN l["maxzoom"] ELSE MAXZ

\* zoom level z is in the closed range [minzoom, maxzoom] of layer l
InClosedRange(z, l) == LowZoom(l) <= z /\ z <= HighZoom(l)

\* zoom level z is in the range of layer l as a renderer reads it: from
\* minzoom on and below maxzoom, an absent maxzoom being no upper limit
InHalfOpenRange(z, l) ==
    /\ LowZoom(l) <= z
    /\ "maxzoom" \in DOMAIN l => z < l["maxzoom"]

\* C12: the closed zoom ranges [minzoom, maxzoom] of the layers synthesized
\* from an unpinned rule for two different bands are disjoint.
C12_ClosedRangesDisjoint ==
    StylesDone =>
        \A k \in DOMAIN styleOut : \A r \in UnpinnedRules(k) :
            \A b, c \in PresentBands :
                b # c =>
                    \A n \in SynthLayers(k, r, b) :
                    \A m \in SynthLayers(k, r, c) :
                    \A z \in 0..MAXZ :
                        ~ ( /\ InClosedRange(z, styleOut[k].layers[n])
                            /\ InClosedRange(z, styleOut[k].layers[m]) )

\* C12 as amended: the zoom ranges minzoom <= z < maxzoom of the layers
\* synthesized from an unpinned rule for two different bands are disjoint.
C12_HalfOpenRangesDisjoint ==
    StylesDone =>
        \A k \in DOMAIN styleOut : \A r \in UnpinnedRules(k) :
            \A b, c \in PresentBands :
                b # c =>
                    \A n \in SynthLayers(k, r, b) :
                    \A m \in SynthLayers(k, r, c) :
                    \A z \in 0..MAXZ :
                        ~ ( /\ InHalfOpenRange(z, styleOut[k].layers[n])
                            /\ InHalfOpenRange(z, styleOut[k].layers[m]) )

\* a style with an unpinned template rule was written for two adjacent
\* bands, and both of their layers were synthesized
C12_Witness ==
    /\ StylesDone
    /\ { 1, 2 } \subseteq PresentBands
    /\ \E k \in DOMAIN styleOut : \E r \in UnpinnedRules(k) :
          SynthLayers(k, r, 1) # {} /\ SynthLayers(k, r, 2) # {}

\* C13: for a non-empty set of populated bands present, every zoom level of
\* 0..18 is in the range of the layer synthesized from an unpinned rule for
\* at least one present band.
C13_NoZoomGap ==
    ( /\ StylesDone
      /\ PresentBands # {}
      /\ PresentBands \subseteq DOMAIN BAND2ZOOM ) =>
        \A k \in DOMAIN styleOut : \A r \in UnpinnedRules(k) :
            \A z \in 0..MAXZ :
                \E b \in PresentBands : \E n \in SynthLayers(k, r, b) :
                    InClosedRange(z, styleOut[k].layers[n])

\* the rules of input document k that are not template rules, by position
OtherAt(k) ==
    { i \in DOMAIN styles[k].layers : ~ TemplateRule(styles[k].layers[i]) }

TemplateAt(k) ==
    { i \in DOMAIN styles[k].layers : TemplateRule(styles[k].layers[i]) }

\* the j-th smallest element of a set of numbers
Nth(S, j) == CHOOSE i \in S : Cardinality({ m \in S : m <= i }) = j

\* the a-th archive in the order of the file names BAND<b>.mbtiles
NthArchive(a) ==
    CHOOSE f \in mbtiles : Cardinality({ g \in mbtiles : g.band <= f.band }) = a

\* C14: in every style document written, no template rule remains; the
\* other layers come first, unchanged and in their original order; then one
\* layer per template rule and archive, ordered by rule and then by archive
\* file name, with id = rule id + '-' + archive stem and source = the stem.
C14_Expansion ==
    StylesDone =>
        \A k \in DOMAIN styleOut :
            LET out == styleOut[k].layers
                in == styles[k].layers
                nO == Cardinality(OtherAt(k))
                nT == Cardinality(TemplateAt(k))
                nA == Cardinality(mbtiles)
            IN  /\ Len(out) = nO + nT * nA
                /\ \A n \in DOMAIN out : \A i \in TemplateAt(k) :
                      out[n] # in[i]
                /\ \A j \in 1..nO : out[j] = in[Nth(OtherAt(k), j)]
                /\ \A t \in 1..nT : \A a \in 1..nA :
                      LET l == out[nO + (t - 1) * nA + a]
                          r == in[Nth(TemplateAt(k), t)]
                          stem == << "BAND", DigitChars[NthArchive(a).band] >>
                      IN  /\ l["id"] = r["id"] \o << "-" >> \o stem
                          /\ "source" \in DOMAIN l
                          /\ l["source"] = stem

\* a document whose template rule came before another layer was expanded
\* for two archives
C14_Witness ==
    /\ StylesDone
    /\ Cardinality(mbtiles) >= 2
    /\ \E k \in DOMAIN styleOut :
          \E i \in TemplateAt(k) : \E j \in OtherAt(k) : i < j

\* C20: a layer synthesized from a rule that has minzoom (maxzoom) keeps the
\* rule's value whatever the band; a bound the rule does not have is set by
\* the band rule; every other key of the rule apart from id and source is
\* copied unchanged and no other key is added.
C20_PinnedBoundsKept ==
    StylesDone =>
        \A k \in DOMAIN styleOut : \A i \in TemplateAt(k) :
            \A b \in PresentBands :
                LET r == styles[k].layers[i]
                IN  /\ SynthLayers(k, r, b) # {}
                    /\ \A n \in SynthLayers(k, r, b) :
                         LET l == styleOut[k].layers[n]
                         IN  /\ \A key \in DOMAIN r \ { "id", "source" } :
                                   key \in DOMAIN l /\ l[key] = r[key]
                             /\ DOMAIN l \subseteq
                                   DOMAIN r \cup
                                     { "source", "minzoom", "maxzoom" }
                             /\ "minzoom" \notin DOMAIN r =>
                                   /\ "minzoom" \in DOMAIN l <=> b # LeastBand
                                   /\ "minzoom" \in DOMAIN l =>
                                          l["minzoom"] = BAND2ZOOM[b][1]
                             /\ "maxzoom" \notin DOMAIN r =>
                                   /\ "maxzoom" \in DOMAIN l <=>
                                          b # GreatestBand
                                   /\ "maxzoom" \in DOMAIN l =>
                                          l["maxzoom"] = BAND2ZOOM[b][2]

\* a rule that pins minzoom and a rule that pins maxzoom were expanded for
\* archives whose bands the band rule would have bounded otherwise
C20_Witness ==
    /\ StylesDone
    /\ { 2, 3, 5 } \subseteq PresentBands
    /\ \E k \in DOMAIN styleOut :
          \E i, j \in TemplateAt(k) :
              /\ "minzoom" \in DOMAIN styles[k].layers[i]
              /\ "maxzoom" \in DOMAIN styles[k].layers[j]

\* ------------------------------------------------------------------------
\* Claims about the tasks of a stage
\* ------------------------------------------------------------------------

\* no two positions of a sequence of tasks have the same output path
DistinctPaths(work) ==
    \A i, j \in DOMAIN work : i # j => OutPath(work[i]) # OutPath(work[j])

\* C15: among the tasks submitted within one stage no two have the same
\* output path, and no two tasks that run at the same time write or delete
\* the same file.
C15_PathUniqueness ==
    /\ pc = "geojson_submit" => DistinctPaths(ConvWork(output_geojsons))
    /\ pc = "tile_submit" => DistinctPaths(TileWork)
    /\ pc = "merge_submit" => DistinctPaths(MergeWork)
    /\ \A t, u \in Running : t # u => Touches(t) \cap Touches(u) = {}

\* two tiling tasks of one band run at the same time
C15_Witness ==
    \E t, u \in Running :
        /\ t # u
        /\ t.kind = "tile"
        /\ u.kind = "tile"
        /\ t.band = u.band

\* the conversion stage was entered with ENC_ROOT present and has returned
ConversionLeft ==
    /\ args.geojson
    /\ encRoot.exists
    /\ ~ AcquisitionFailed
    /\ pc \notin { "start", "check_root", "geojson", "geojson_submit" }

\* the submission loop of the tiling stage was entered and has been left
TilingLoopLeft ==
    /\ args.tile
    /\ ~ AcquisitionFailed
    /\ args.geojson => encRoot.exists
    /\ pc \notin { "start", "check_root", "geojson", "geojson_submit",
                   "tile_submit" }

\* the intermediate files of band and layer: <cell>_<layer>.geojson of a
\* cell US<band>...
GroupFiles(band, layer) ==
    { f \in geojsons :
        /\ SubSeq(f.stem, 1, 3) = << "U", "S", DigitChars[band] >>
        /\ f.layer = layer }

\* C17: for every band 1..9 and configured layer, a group with at least one
\* intermediate file gets exactly one tiling task, with maximum zoom equal
\* to the Band-to-Zoom Map's max of the band, a group without files gets
\* none, and no error is raised; files of band 7, 8 or 9 do not stop the
\* other groups from being submitted.
C17_TilingFanOut ==
    TilingLoopLeft =>
        /\ raised # "KeyError"
        /\ pc # "tile_keyerror"
        /\ \A band \in 1..TopBand : \A layer \in LayerSet :
              IF GroupFiles(band, layer) # {}
              THEN /\ TileTask(band, layer) \in Submitted
                   /\ band \in DOMAIN BAND2ZOOM
                   /\ ZoomArg(band) = BAND2ZOOM[band][2]
              ELSE TileTask(band, layer) \notin Submitted

\* the tiling tasks that were submitted with the file f among their inputs
TilingTasksOf(f) ==
    { t \in TasksOf("tile") : f \in GroupFiles(t.band, t.layer) }

\* C18: every intermediate file written by the conversion stage is an input
\* of exactly one tiling task: it is matched by exactly one (band, layer)
\* group of the tiling loop, never by none and never by two.
C18_EachFileTiledOnce ==
    TilingLoopLeft =>
        \A f \in geojsons :
            /\ Cardinality({ g \in (1..TopBand) \X LayerSet :
                               f \in GroupFiles(g[1], g[2]) }) = 1
            /\ Cardinality(TilingTasksOf(f)) = 1

\* the extent of the cell can be read and is not disjoint from the caller's
\* box on either axis
CellIntersectsBox(cell) ==
    /\ Extent(cell) # None
    /\ ~ DisjointOnAnAxis(Extent(cell), args.bb)

\* the number of positions of the task sequence work that hold the
\* conversion task of cell and layer
ConvSubmissions(work, cell, layer) ==
    Cardinality({ n \in DOMAIN work : work[n] = ConvTask(cell, layer) })

\* C19: exactly one conversion task is submitted per configured layer for
\* every cell whose extent intersects the caller's box, each with its own
\* output file; a cell whose extent does not intersect the box or cannot be
\* read gets none, and the other cells are converted all the same.
C19_ConversionFanOut ==
    /\ pc = "geojson_submit" =>
          LET work == ConvWork(output_geojsons)
          IN  /\ \A cell \in encRoot.dirs : \A layer \in LayerSet :
                    ConvSubmissions(work, cell, layer) =
                        IF CellIntersectsBox(cell) THEN 1 ELSE 0
              /\ \A i, j \in DOMAIN work :
                    i # j => OutPath(work[i]) # OutPath(work[j])
    /\ ConversionLeft =>
          TasksOf("conv") =
              { ConvTask(cell, layer) :
                  cell \in { c \in encRoot.dirs : CellIntersectsBox(c) },
                  layer \in LayerSet }

\* the conversion stage has returned for a chart root that holds a cell
\* overlapping the box without lying inside it, and a cell that is
\* unreadable or outside the box
C19_Witness ==
    /\ ConversionLeft
    /\ US1AK1 \in encRoot.dirs
    /\ \E c \in encRoot.dirs : ~ CellIntersectsBox(c)
    /\ TasksOf("conv") # {}

\* ------------------------------------------------------------------------
\* Claims about the accumulator mode
\* ------------------------------------------------------------------------

\* the positions of accLog that wrote to the artifact path
WritesTo(path) == { n \in DOMAIN accLog : accLog[n].path = path }

\* the writes to path with the given mode
WritesWithMode(path, mode) ==
    { n \in WritesTo(path) : accLog[n].mode = mode }

\* C16: of the writes to one unit's artifact the first uses create and
\* every later one append, and they come in the order of the unit's cells;
\* a unit of 3 cells is written by exactly 1 create and 2 append
\* invocations.
C16_CreateThenAppend ==
    \A u \in DOMAIN accPos :
        LET path == AccArtifact(output_geojsons[u].key)
            cells == output_geojsons[u].val
        IN  /\ \A n \in WritesTo(path) :
                  accLog[n].mode =
                      IF \E m \in WritesTo(path) : m < n
                      THEN "append"
                      ELSE "create"
            /\ \A n \in WritesTo(path) :
                  accLog[n].cell =
                      cells[Cardinality({ m \in WritesTo(path) : m <= n })]
            /\ ( Len(cells) = 3 /\ accPos[u] = 3 ) =>
                  /\ Cardinality(WritesWithMode(path, "create")) = 1
                  /\ Cardinality(WritesWithMode(path, "append")) = 2

\* a unit of 3 cells has been written completely
C16_Witness ==
    \E u \in DOMAIN accPos :
        /\ Len(output_geojsons[u].val) = 3
        /\ accPos[u] = 3
        /\ Cardinality(WritesTo(AccArtifact(output_geojsons[u].key))) = 3

====
